---- MODULE Spec2Model ----
(***************************************************************************)
(* Model of EditRef (src/cdk-experimental/popover-edit/edit-ref.ts): the   *)
(* object that links the form inside an edit lens to the table that opened *)
(* it.  Every EditRef shares one EditEventDispatcher (the registry of the  *)
(* active edit) and one NgZone (whose onStable emitter defers init), and    *)
(* borrows its own ControlContainer (the form value provider).             *)
(***************************************************************************)
EXTENDS Integers, Sequences, FiniteSets, TLC

\* ---------------------------------------------------------------- bounds
MaxRefs == 2          \* EditRef instances constructed against the dispatcher
MaxSubscribers == 2   \* external subscribers to the finalValue/blurred streams
MaxInit == 1          \* init calls, over all EditRefs
MaxDestroy == 2       \* ngOnDestroy calls, over all EditRefs
MaxBlur == 2          \* notifications a blurred subscriber is delivered
MaxClose == 1         \* markers pushed onto the dispatcher's editing stream
MaxSteps == 5         \* operations called on the EditRefs and their collaborators

Refs == 1..MaxRefs
Subscribers == 1..MaxSubscribers

\* ---------------------------------------------------------------- values
NoRef == 0                   \* EditEventDispatcher._editRef === null
Undefined == "undefined"     \* JavaScript undefined
Null == "null"               \* JavaScript null
None == "-"                  \* "no argument / not applicable" in the records kept below

TruthyValues == {"foo", "bar"}
FalsyValues == {Null}
FormValues == TruthyValues \cup FalsyValues      \* values a form can hold
ArgValues == FormValues \cup {Undefined}         \* values a caller can pass

\* JavaScript truthiness, as tested by `if (previousFormValue)` and `value || ...`
Truthy(v) == v \notin (FalsyValues \cup {Undefined})

\* JavaScript `a || b`
Or(a, b) == IF Truthy(a) THEN a ELSE b

VARIABLES
  nRefs,              \* number of EditRefs constructed so far (they are 1..nRefs)
  activeEditRef,      \* EditEventDispatcher._editRef
  editing,            \* values pushed onto EditEventDispatcher.editing
  formValue,          \* _form.value of each EditRef
  revertFormValue,    \* _revertFormValue of each EditRef
  onStable,           \* subscriptions init holds on NgZone.onStable, in order
  firing,             \* the subscriptions an onStable emission still has to call
  finalValueSubject,  \* _finalValueSubject of each EditRef
  blurredSubject,     \* _blurredSubject of each EditRef
  received,           \* what each external subscriber has been delivered
  subscribed,         \* where and when each external subscriber attached, and the
                      \* blur calls made since
  calls,              \* how often init, its continuation, ngOnDestroy ran per EditRef
  seen,               \* the form values init, its continuation, updateRevertValue and
                      \* ngOnDestroy found
  lastOp,             \* the operation that produced the current state
  steps               \* operations called so far

vars == <<nRefs, activeEditRef, editing, formValue, revertFormValue,
          onStable, firing, finalValueSubject, blurredSubject, received,
          subscribed, calls, seen, lastOp, steps>>

\* ------------------------------------------------------------ collaborators

\* EditEventDispatcher.setActiveEditRef(ref): the new ref supersedes the old one.
setActiveEditRef(editRef, ref) == ref

\* EditEventDispatcher.unsetActiveEditRef(ref): a no-op unless ref is the active one.
unsetActiveEditRef(editRef, ref) == IF editRef # ref THEN editRef ELSE NoRef

\* ControlContainer.reset(value): the form takes the value; without one its
\* controls are reset to null.
FormReset(value) == IF value = Undefined THEN Null ELSE value

\* ControlContainer.valid: the form's validators decide it from the value; the
\* form modelled here requires a non-empty value, and a form whose controls
\* were reset to null has no validity yet.
FormValid(value) == IF value = Null THEN Null ELSE IF Truthy(value) THEN "true" ELSE "false"

\* rxjs Subject: a fresh subject has no observers and is not stopped.
NewSubject == [isStopped |-> FALSE, observers |-> {}]

\* rxjs Subject.next(value): every current observer is delivered the value,
\* unless the subject has completed.  `log` is the subscribers' record.
SubjectNext(subject, log, event) ==
  IF subject.isStopped THEN log
  ELSE [k \in Subscribers |->
          IF k \in subject.observers THEN Append(log[k], event) ELSE log[k]]

\* rxjs Subject.complete(): every current observer is delivered the completion
\* (as SubjectNext delivers a value), the observers are dropped and the subject
\* is stopped.
SubjectComplete(subject) ==
  IF subject.isStopped THEN subject ELSE [isStopped |-> TRUE, observers |-> {}]

\* rxjs Subject.subscribe(observer): a stopped subject completes the observer
\* at once and delivers no value; otherwise the observer is added.
SubjectSubscribe(subject, k) ==
  IF subject.isStopped THEN subject
  ELSE [subject EXCEPT !.observers = @ \cup {k}]

\* What a subscriber is delivered: a value or the completion, and the
\* dispatcher's active EditRef at that moment.
Event(kind, val, active) == [kind |-> kind, val |-> val, active |-> active]

\* The record kept of the last operation: its name, the EditRef it ran on, its
\* argument, what it returned, whether it threw (no operation of EditRef has a
\* throw statement), and the form value, revert value and active EditRef it found.
Op(op, s, arg, result) ==
  [op |-> op, ref |-> s, arg |-> arg, result |-> result, threw |-> FALSE,
   pre |-> IF s = NoRef THEN None ELSE formValue[s],
   preRevert |-> IF s = NoRef THEN None ELSE revertFormValue[s],
   preActive |-> activeEditRef]

Init ==
  /\ nRefs = 0
  /\ activeEditRef = NoRef
  /\ editing = <<>>
  /\ formValue = [s \in Refs |-> Null]
  /\ revertFormValue = [s \in Refs |-> Undefined]
  /\ onStable = <<>>
  /\ firing = <<>>
  /\ finalValueSubject = [s \in Refs |-> NewSubject]
  /\ blurredSubject = [s \in Refs |-> NewSubject]
  /\ received = [k \in Subscribers |-> <<>>]
  /\ subscribed = [k \in Subscribers |-> [stream |-> None, ref |-> NoRef, late |-> FALSE,
                                         blurs |-> 0]]
  /\ calls = [s \in Refs |-> [init |-> 0, continuation |-> 0, destroy |-> 0]]
  /\ seen = [s \in Refs |-> [atInit |-> None, atContinuation |-> None,
                             previous |-> None, atDestroy |-> None,
                             atUpdate |-> None, replaced |-> None]]
  /\ lastOp = [op |-> "start", ref |-> NoRef, arg |-> None, result |-> None,
               threw |-> FALSE, pre |-> None, preRevert |-> None, preActive |-> NoRef]
  /\ steps = 0

\* ------------------------------------------------------------------ EditRef

Constructed(s) == s \in 1..nRefs

\* An operation is called: no onStable emission is being delivered (the
\* emission is synchronous), and the call is counted.
Called ==
  /\ firing = <<>>
  /\ steps < MaxSteps
  /\ steps' = steps + 1

Calls(field) == LET Sum[n \in 0..MaxRefs] == IF n = 0 THEN 0 ELSE calls[n][field] + Sum[n - 1]
                IN Sum[MaxRefs]

\* The subscriptions of EditRef s among those of q.
Of(q, s) == SelectSeq(q, LAMBDA e : e.ref = s)

\* The state a constructor call leaves, given the dispatcher's active EditRef.
Construct(s, value, editRef1) ==
  /\ Called
  /\ s = nRefs + 1
  /\ s \in Refs
  /\ nRefs' = s
  /\ activeEditRef' = editRef1
  /\ formValue' = [formValue EXCEPT ![s] = value]
  /\ lastOp' = Op("constructor", s, None, None)
  /\ UNCHANGED <<editing, revertFormValue, onStable, firing, finalValueSubject,
                 blurredSubject, received, subscribed, calls, seen>>

\* Mutant of constructor: registers itself only when no EditRef is active.
constructor_KeepActive(s, value) ==
  Construct(s, value, IF activeEditRef = NoRef THEN setActiveEditRef(activeEditRef, s)
                      ELSE activeEditRef)

\* Mutant of constructor: caches the form's value as the revert value at once.
constructor_ReadsForm(s, value) ==
  /\ Called
  /\ s = nRefs + 1
  /\ s \in Refs
  /\ nRefs' = s
  /\ activeEditRef' = setActiveEditRef(activeEditRef, s)
  /\ formValue' = [formValue EXCEPT ![s] = value]
  /\ revertFormValue' = [revertFormValue EXCEPT ![s] = value]
  /\ lastOp' = Op("constructor", s, None, None)
  /\ UNCHANGED <<editing, onStable, firing, finalValueSubject, blurredSubject,
                 received, subscribed, calls, seen>>

\* Mutant of constructor: completes the finalValue of the EditRef it supersedes.
constructor_CompletesSuperseded(s, value) ==
  /\ Called
  /\ s = nRefs + 1
  /\ s \in Refs
  /\ nRefs' = s
  /\ activeEditRef' = setActiveEditRef(activeEditRef, s)
  /\ formValue' = [formValue EXCEPT ![s] = value]
  /\ finalValueSubject' = [r \in Refs |-> IF r = activeEditRef
                                           THEN SubjectComplete(finalValueSubject[r])
                                           ELSE finalValueSubject[r]]
  /\ received' = IF activeEditRef = NoRef THEN received
                 ELSE SubjectNext(finalValueSubject[activeEditRef], received,
                                  Event("complete", None, s))
  /\ lastOp' = Op("constructor", s, None, None)
  /\ UNCHANGED <<editing, revertFormValue, onStable, firing, blurredSubject,
                 subscribed, calls, seen>>

\* constructor(_form, _editEventDispatcher, _ngZone): registers the new EditRef
\* as the active one.  `value` is what the injected form holds.
constructor(s, value) ==
  Construct(s, value, setActiveEditRef(activeEditRef, s))

\* Mutant of Subscription: take(2), the continuation is called on two emissions.
Subscription_TakeTwo(s, previousFormValue) ==
  [ref |-> s, previousFormValue |-> previousFormValue, take |-> 2]

\* onStable.pipe(take(1)).subscribe(...): the subscription init leaves on the zone.
Subscription(s, previousFormValue) ==
  [ref |-> s, previousFormValue |-> previousFormValue, take |-> 1]

\* init(previousFormValue): subscribes the continuation, runs nothing yet.  The
\* host directive calls it from its OnInit hook, hence before ngOnDestroy.
init(s, previousFormValue) ==
  /\ Called
  /\ Constructed(s)
  /\ calls[s].destroy = 0
  /\ Calls("init") < MaxInit
  /\ onStable' = Append(onStable, Subscription(s, previousFormValue))
  /\ calls' = [calls EXCEPT ![s].init = @ + 1]
  /\ seen' = [seen EXCEPT ![s].atInit = formValue[s]]
  /\ lastOp' = Op("init", s, previousFormValue, None)
  /\ UNCHANGED <<nRefs, activeEditRef, editing, formValue, revertFormValue, firing,
                 finalValueSubject, blurredSubject, received, subscribed>>

\* updateRevertValue(): the value _revertFormValue takes.
RevertValueOf(form) == form

\* Mutant of ResetValueOf: a defined value is used even when it is falsy.
ResetValueOf_IfDefined(value, revert) ==
  FormReset(IF value # Undefined THEN value ELSE revert)

\* Mutant of ResetValueOf: the revert value is not the fallback.
ResetValueOf_IgnoreRevert(value, revert) == FormReset(value)

\* reset(value): the value the form is reset to.
ResetValueOf(value, revert) == FormReset(Or(value, revert))

\* Mutant of ContinuationRevert: the previous value is applied before the form's
\* value is cached.
ContinuationRevert_AfterReset(form, previousFormValue) ==
  RevertValueOf(IF Truthy(previousFormValue) THEN FormReset(previousFormValue) ELSE form)

\* The body of init's continuation: the values _revertFormValue and the form
\* hold after updateRevertValue() and, for a truthy previous value, reset(it).
ContinuationRevert(form, previousFormValue) == RevertValueOf(form)

ContinuationForm(form, previousFormValue) ==
  IF Truthy(previousFormValue)
  THEN ResetValueOf(previousFormValue, ContinuationRevert(form, previousFormValue))
  ELSE form

\* NgZone.onStable emits: it will call the subscriptions it holds now; take(1)
\* drops each after its first call.
onStableEmit ==
  /\ Called
  /\ firing' = onStable
  /\ onStable' = SelectSeq([i \in 1..Len(onStable) |->
                              [onStable[i] EXCEPT !.take = @ - 1]],
                           LAMBDA e : e.take > 0)
  /\ lastOp' = Op("onStable", NoRef, None, None)
  /\ UNCHANGED <<nRefs, activeEditRef, editing, formValue, revertFormValue,
                 finalValueSubject, blurredSubject, received, subscribed, calls,
                 seen>>

\* The emission calls the next subscription: init's continuation runs.
continuation ==
  /\ firing # <<>>
  /\ LET e == Head(firing)
         s == e.ref
     IN /\ revertFormValue' = [revertFormValue EXCEPT
                                 ![s] = ContinuationRevert(formValue[s], e.previousFormValue)]
        /\ formValue' = [formValue EXCEPT
                           ![s] = ContinuationForm(formValue[s], e.previousFormValue)]
        /\ calls' = [calls EXCEPT ![s].continuation = @ + 1]
        /\ seen' = [seen EXCEPT ![s].atContinuation = formValue[s],
                                ![s].previous = e.previousFormValue,
                                ![s].atUpdate = None,
                                ![s].replaced = None]
        /\ lastOp' = Op("continuation", s, e.previousFormValue, None)
  /\ firing' = Tail(firing)
  /\ UNCHANGED <<nRefs, activeEditRef, editing, onStable, finalValueSubject,
                 blurredSubject, received, subscribed, steps>>

\* The state an ngOnDestroy call leaves, given the dispatcher's active EditRef,
\* the subscribers' record and the finalValue subject after its statements.
Destroy(s, editRef1, log, subject) ==
  /\ Called
  /\ Constructed(s)
  /\ Calls("destroy") < MaxDestroy
  /\ activeEditRef' = editRef1
  /\ received' = log
  /\ finalValueSubject' = [finalValueSubject EXCEPT ![s] = subject]
  /\ calls' = [calls EXCEPT ![s].destroy = @ + 1]
  /\ seen' = [seen EXCEPT ![s].atDestroy = IF calls[s].destroy = 0 THEN formValue[s] ELSE @]
  /\ lastOp' = Op("ngOnDestroy", s, None, None)
  /\ UNCHANGED <<nRefs, editing, formValue, revertFormValue, onStable, firing,
                 blurredSubject, subscribed>>

\* Mutant of ngOnDestroy: emits the cached revert value, not the form's value.
ngOnDestroy_EmitRevertValue(s) ==
  LET editRef1 == unsetActiveEditRef(activeEditRef, s)
      log1 == SubjectNext(finalValueSubject[s], received,
                          Event("next", revertFormValue[s], editRef1))
      log2 == SubjectNext(finalValueSubject[s], log1, Event("complete", None, editRef1))
  IN Destroy(s, editRef1, log2, SubjectComplete(finalValueSubject[s]))

\* Mutant of ngOnDestroy: emits and completes before it deregisters.
ngOnDestroy_EmitBeforeUnset(s) ==
  LET log1 == SubjectNext(finalValueSubject[s], received,
                          Event("next", formValue[s], activeEditRef))
      log2 == SubjectNext(finalValueSubject[s], log1,
                          Event("complete", None, activeEditRef))
      editRef1 == unsetActiveEditRef(activeEditRef, s)
  IN Destroy(s, editRef1, log2, SubjectComplete(finalValueSubject[s]))

\* Mutant of ngOnDestroy: emits but never completes finalValue.
ngOnDestroy_NoComplete(s) ==
  LET editRef1 == unsetActiveEditRef(activeEditRef, s)
      log1 == SubjectNext(finalValueSubject[s], received,
                          Event("next", formValue[s], editRef1))
  IN Destroy(s, editRef1, log1, finalValueSubject[s])

\* Mutant of ngOnDestroy: clears the dispatcher's active EditRef, whichever it is.
ngOnDestroy_UnsetAny(s) ==
  LET editRef1 == unsetActiveEditRef(activeEditRef, activeEditRef)
      log1 == SubjectNext(finalValueSubject[s], received,
                          Event("next", formValue[s], editRef1))
      log2 == SubjectNext(finalValueSubject[s], log1, Event("complete", None, editRef1))
  IN Destroy(s, editRef1, log2, SubjectComplete(finalValueSubject[s]))

\* ngOnDestroy(): deregisters, emits the form's value on finalValue, completes it.
ngOnDestroy(s) ==
  LET editRef1 == unsetActiveEditRef(activeEditRef, s)
      log1 == SubjectNext(finalValueSubject[s], received,
                          Event("next", formValue[s], editRef1))
      log2 == SubjectNext(finalValueSubject[s], log1, Event("complete", None, editRef1))
  IN Destroy(s, editRef1, log2, SubjectComplete(finalValueSubject[s]))

\* isValid(): the form's validity, nothing else.
isValid(s) ==
  /\ Called
  /\ Constructed(s)
  /\ lastOp' = Op("isValid", s, None, FormValid(formValue[s]))
  /\ UNCHANGED <<nRefs, activeEditRef, editing, formValue, revertFormValue, onStable,
                 firing, finalValueSubject, blurredSubject, received, subscribed,
                 calls, seen>>

\* The state an updateRevertValue call leaves, given the value it caches.  The
\* value init's continuation found is then no longer the one to revert to.
Checkpoint(s, revert1) ==
  /\ Called
  /\ Constructed(s)
  /\ revertFormValue' = [revertFormValue EXCEPT ![s] = revert1]
  /\ seen' = [seen EXCEPT ![s].atContinuation = None, ![s].previous = None,
                          ![s].atUpdate = formValue[s],
                          ![s].replaced = revertFormValue[s]]
  /\ lastOp' = Op("updateRevertValue", s, None, None)
  /\ UNCHANGED <<nRefs, activeEditRef, editing, formValue, onStable, firing,
                 finalValueSubject, blurredSubject, received, subscribed, calls>>

\* Mutant of updateRevertValue: keeps a revert value that is already set.
updateRevertValue_KeepFirst(s) ==
  Checkpoint(s, IF revertFormValue[s] = Undefined THEN RevertValueOf(formValue[s])
                ELSE revertFormValue[s])

\* updateRevertValue(): caches the form's value.
updateRevertValue(s) ==
  Checkpoint(s, RevertValueOf(formValue[s]))

\* The state a close call leaves, given the dispatcher's editing stream and
\* active EditRef after it.
Close(s, editing1, editRef1) ==
  /\ Called
  /\ Constructed(s)
  /\ Len(editing) < MaxClose
  /\ editing' = editing1
  /\ activeEditRef' = editRef1
  /\ lastOp' = Op("close", s, None, None)
  /\ UNCHANGED <<nRefs, formValue, revertFormValue, onStable, firing,
                 finalValueSubject, blurredSubject, received, subscribed, calls,
                 seen>>

\* Mutant of close: also deregisters the EditRef from the dispatcher.
close_Deregisters(s) ==
  Close(s, Append(editing, Null), unsetActiveEditRef(activeEditRef, s))

\* Mutant of close: pushes the marker only when the EditRef is the active one.
close_OnlyIfActive(s) ==
  Close(s, IF activeEditRef = s THEN Append(editing, Null) ELSE editing, activeEditRef)

\* close(): pushes null onto the dispatcher's editing stream.
close(s) ==
  Close(s, Append(editing, Null), activeEditRef)

\* The state a blur call leaves, given the subscribers' record after it.  Every
\* subscriber attached to blurred counts the call.
Blur(s, log) ==
  /\ Called
  /\ Constructed(s)
  /\ \A k \in blurredSubject[s].observers : Len(received[k]) < MaxBlur
  /\ received' = log
  /\ subscribed' = [k \in Subscribers |->
                      IF subscribed[k].stream = "blurred" /\ subscribed[k].ref = s
                      THEN [subscribed[k] EXCEPT !.blurs = @ + 1]
                      ELSE subscribed[k]]
  /\ lastOp' = Op("blur", s, None, None)
  /\ UNCHANGED <<nRefs, activeEditRef, editing, formValue, revertFormValue, onStable,
                 firing, finalValueSubject, blurredSubject, calls, seen>>

\* Mutant of blur: notifies only while the EditRef is the active one.
blur_OnlyIfActive(s) ==
  Blur(s, IF activeEditRef = s
          THEN SubjectNext(blurredSubject[s], received,
                           Event("next", Undefined, activeEditRef))
          ELSE received)

\* blur(): one notification on blurred.
blur(s) ==
  Blur(s, SubjectNext(blurredSubject[s], received,
                      Event("next", Undefined, activeEditRef)))

\* Mutant of reset: a value given becomes the value later resets revert to.
reset_RemembersValue(s, value) ==
  /\ Called
  /\ Constructed(s)
  /\ formValue' = [formValue EXCEPT ![s] = ResetValueOf(value, revertFormValue[s])]
  /\ revertFormValue' = [revertFormValue EXCEPT ![s] = Or(value, @)]
  /\ lastOp' = Op("reset", s, value, None)
  /\ UNCHANGED <<nRefs, activeEditRef, editing, onStable, firing,
                 finalValueSubject, blurredSubject, received, subscribed, calls,
                 seen>>

\* reset(value): resets the form to the value or to the revert value.
reset(s, value) ==
  /\ Called
  /\ Constructed(s)
  /\ formValue' = [formValue EXCEPT ![s] = ResetValueOf(value, revertFormValue[s])]
  /\ lastOp' = Op("reset", s, value, None)
  /\ UNCHANGED <<nRefs, activeEditRef, editing, revertFormValue, onStable, firing,
                 finalValueSubject, blurredSubject, received, subscribed, calls,
                 seen>>

\* ------------------------------------------------------------- environment

\* The user edits the form inside the lens.
formEdit(s, value) ==
  /\ Called
  /\ Constructed(s)
  /\ value # formValue[s]
  /\ formValue' = [formValue EXCEPT ![s] = value]
  /\ lastOp' = Op("formEdit", s, value, None)
  /\ UNCHANGED <<nRefs, activeEditRef, editing, revertFormValue, onStable, firing,
                 finalValueSubject, blurredSubject, received, subscribed, calls,
                 seen>>

\* The external subscribers attach one after the other, each once.
NextSubscriber(k) ==
  /\ subscribed[k].stream = None
  /\ \A j \in 1..(k - 1) : subscribed[j].stream # None

\* finalValue.subscribe(...) by an external subscriber.
subscribeFinalValue(k, s) ==
  /\ Called
  /\ Constructed(s)
  /\ NextSubscriber(k)
  /\ subscribed' = [subscribed EXCEPT ![k] = [stream |-> "finalValue", ref |-> s,
                                              late |-> calls[s].destroy > 0,
                                              blurs |-> 0]]
  /\ finalValueSubject' = [finalValueSubject EXCEPT ![s] = SubjectSubscribe(@, k)]
  /\ received' = IF finalValueSubject[s].isStopped
                 THEN [received EXCEPT ![k] = <<Event("complete", None, activeEditRef)>>]
                 ELSE received
  /\ lastOp' = Op("subscribeFinalValue", s, None, None)
  /\ UNCHANGED <<nRefs, activeEditRef, editing, formValue, revertFormValue, onStable,
                 firing, blurredSubject, calls, seen>>

\* blurred.subscribe(...) by an external subscriber.
subscribeBlurred(k, s) ==
  /\ Called
  /\ Constructed(s)
  /\ NextSubscriber(k)
  /\ subscribed' = [subscribed EXCEPT ![k] = [stream |-> "blurred", ref |-> s,
                                              late |-> calls[s].destroy > 0,
                                              blurs |-> 0]]
  /\ blurredSubject' = [blurredSubject EXCEPT ![s] = SubjectSubscribe(@, k)]
  /\ lastOp' = Op("subscribeBlurred", s, None, None)
  /\ UNCHANGED <<nRefs, activeEditRef, editing, formValue, revertFormValue, onStable,
                 firing, finalValueSubject, received, calls, seen>>

Next ==
  \/ \E s \in Refs, v \in FormValues : constructor(s, v)
  \/ \E s \in Refs, v \in ArgValues : init(s, v)
  \/ onStableEmit
  \/ continuation
  \/ \E s \in Refs : ngOnDestroy(s)
  \/ \E s \in Refs : isValid(s)
  \/ \E s \in Refs : updateRevertValue(s)
  \/ \E s \in Refs : close(s)
  \/ \E s \in Refs : blur(s)
  \/ \E s \in Refs, v \in ArgValues : reset(s, v)
  \/ \E s \in Refs, v \in FormValues : formEdit(s, v)
  \/ \E k \in Subscribers, s \in Refs : subscribeFinalValue(k, s)
  \/ \E k \in Subscribers, s \in Refs : subscribeBlurred(k, s)

Spec == Init /\ [][Next]_vars

TypeOK ==
  /\ nRefs \in 0..MaxRefs
  /\ activeEditRef \in {NoRef} \cup Refs
  /\ formValue \in [Refs -> FormValues]
  /\ revertFormValue \in [Refs -> ArgValues]
  /\ steps \in 0..MaxSteps

\* ------------------------------------------------------------------ claims

\* The subscribers attached to finalValue of EditRef s, before or after its teardown.
FinalValueSubscribers(s) ==
  {k \in Subscribers : subscribed[k].stream = "finalValue" /\ subscribed[k].ref = s}

\* What a subscriber was delivered, without the dispatcher's state at delivery.
Delivered(k) == [i \in 1..Len(received[k]) |-> <<received[k][i].kind, received[k][i].val>>]

\* The values among what a subscriber was delivered.
Values(k) == SelectSeq(received[k], LAMBDA e : e.kind = "next")

\* The last operation was reset() without an argument.
BareReset == lastOp.op = "reset" /\ lastOp.arg = Undefined

\* C1: after each construction the dispatcher's active EditRef is the one just
\* constructed, and while no EditRef has been torn down it is the one
\* constructed last; the dispatcher never holds more than that one EditRef.
C1_SingleActive ==
  /\ activeEditRef \in {NoRef} \cup 1..nRefs
  /\ lastOp.op = "constructor" => activeEditRef = lastOp.ref
  /\ (nRefs >= 1 /\ Calls("destroy") = 0) => activeEditRef = nRefs

C1_Witness ==
  /\ nRefs >= 2
  /\ lastOp.op = "constructor"
  /\ lastOp.preActive = nRefs - 1
  /\ Calls("destroy") = 0

\* C2: a subscriber attached to finalValue before the teardown has been delivered
\* nothing until the teardown and, from then on, exactly the form's value at the
\* teardown followed by the completion; a subscriber attached after the teardown
\* has been delivered the completion alone.
C2_FinalValueOnTeardown ==
  \A s \in Refs : \A k \in FinalValueSubscribers(s) :
    Delivered(k) = IF subscribed[k].late THEN << <<"complete", None>> >>
                   ELSE IF calls[s].destroy = 0 THEN <<>>
                   ELSE << <<"next", seen[s].atDestroy>>, <<"complete", None>> >>

C2_Witness ==
  \E s \in Refs : \E k1, k2 \in FinalValueSubscribers(s) :
    /\ ~subscribed[k1].late
    /\ subscribed[k2].late
    /\ Len(received[k1]) = 2
    /\ received[k1][1].val = seen[s].atDestroy
    /\ received[k1][1].val # revertFormValue[s]
    /\ Len(received[k2]) = 1

\* C3: once init(undefined)'s continuation has run and found the form holding
\* V0, a reset() without argument leaves the form holding V0, whatever the form
\* was changed to in between, as long as updateRevertValue was not called.
C3_RevertCorrectness ==
  (BareReset /\ seen[lastOp.ref].previous = Undefined)
    => formValue[lastOp.ref] = seen[lastOp.ref].atContinuation

C3_Witness ==
  /\ BareReset
  /\ seen[lastOp.ref].previous = Undefined
  /\ lastOp.pre # seen[lastOp.ref].atContinuation
  /\ formValue[lastOp.ref] = seen[lastOp.ref].atContinuation

\* C4 as stated: for every previous value P other than undefined, the continuation
\* leaves the form holding P and the revert value holding the pristine V0, and
\* a later reset() without argument leaves the form holding V0.
C4_RestoreThenRevert ==
  /\ (lastOp.op = "continuation" /\ lastOp.arg # Undefined)
       => /\ formValue[lastOp.ref] = lastOp.arg
          /\ revertFormValue[lastOp.ref] = lastOp.pre
  /\ (BareReset /\ seen[lastOp.ref].previous \notin {None, Undefined})
       => formValue[lastOp.ref] = seen[lastOp.ref].atContinuation

\* C4 amended: the same for every truthy previous value P.
C4_RestoreTruthyThenRevert ==
  /\ (lastOp.op = "continuation" /\ Truthy(lastOp.arg))
       => /\ formValue[lastOp.ref] = lastOp.arg
          /\ revertFormValue[lastOp.ref] = lastOp.pre
  /\ (BareReset /\ seen[lastOp.ref].previous # None /\ Truthy(seen[lastOp.ref].previous))
       => formValue[lastOp.ref] = seen[lastOp.ref].atContinuation

C4_Witness ==
  /\ BareReset
  /\ Truthy(seen[lastOp.ref].previous)
  /\ seen[lastOp.ref].previous # None
  /\ lastOp.pre = seen[lastOp.ref].previous
  /\ lastOp.preRevert = seen[lastOp.ref].atContinuation
  /\ formValue[lastOp.ref] = seen[lastOp.ref].atContinuation
  /\ formValue[lastOp.ref] # seen[lastOp.ref].previous

\* C5: whenever a finalValue subscriber is delivered the value or the
\* completion, the EditRef torn down is not the dispatcher's active one any
\* more, and the completion is never delivered before the value.
C5_TeardownOrdering ==
  \A s \in Refs : \A k \in FinalValueSubscribers(s) :
    /\ \A i \in 1..Len(received[k]) :
         received[k][i].kind = "next" =>
           /\ received[k][i].active # s
           /\ \A j \in 1..(i - 1) : received[k][j].kind # "complete"
    /\ ~subscribed[k].late =>
         \A i \in 1..Len(received[k]) : received[k][i].active # s

C5_Witness ==
  /\ lastOp.op = "ngOnDestroy"
  /\ lastOp.preActive = lastOp.ref
  /\ activeEditRef = NoRef
  /\ \E k \in FinalValueSubscribers(lastOp.ref) :
       /\ Len(received[k]) = 2
       /\ received[k][1].kind = "next"
       /\ received[k][2].kind = "complete"

\* C6: no finalValue subscriber has been delivered more than one value, a second
\* teardown included; and as long as an EditRef has not been torn down, whatever
\* else was called on it, its finalValue has delivered nothing and is not completed.
C6_FinalValueAtMostOnce ==
  \A s \in Refs :
    /\ \A k \in FinalValueSubscribers(s) : Len(Values(k)) <= 1
    /\ calls[s].destroy = 0 =>
         /\ ~finalValueSubject[s].isStopped
         /\ \A k \in FinalValueSubscribers(s) : received[k] = <<>>

C6_Witness ==
  /\ lastOp.op = "ngOnDestroy"
  /\ calls[lastOp.ref].destroy = 2
  /\ \E k \in FinalValueSubscribers(lastOp.ref) :
       ~subscribed[k].late /\ Len(Values(k)) = 1

\* C7 as stated: a reset() without argument while the revert value is unset
\* signals a precondition violation and leaves the form's value alone.
C7_ResetNeedsRevertValue ==
  (BareReset /\ lastOp.preRevert = Undefined)
    => /\ lastOp.threw
       /\ formValue[lastOp.ref] = lastOp.pre

\* C8 as stated: the continuation of an init never runs once the EditRef has
\* been torn down, so it changes neither the revert value nor the form then.
C8_TeardownCancelsInit ==
  ~(lastOp.op = "continuation" /\ calls[lastOp.ref].destroy > 0)

\* C9: init changes neither the revert value nor the form; every init call has
\* either its continuation waiting for the next onStable emission or has had it
\* run, once; and the continuation caches the form's value as it finds it.
C9_DeferredOneShotInit ==
  /\ lastOp.op = "init" =>
       /\ revertFormValue[lastOp.ref] = lastOp.preRevert
       /\ formValue[lastOp.ref] = lastOp.pre
  /\ \A s \in Refs :
       /\ calls[s].continuation <= calls[s].init
       /\ calls[s].init - calls[s].continuation = Len(Of(onStable, s)) + Len(Of(firing, s))
  /\ lastOp.op = "onStable" => Len(onStable) = 0
  /\ lastOp.op = "continuation" => revertFormValue[lastOp.ref] = lastOp.pre

C9_Witness ==
  /\ lastOp.op = "onStable"
  /\ firing = <<>>
  /\ \E s \in Refs :
       /\ calls[s].init = 1
       /\ calls[s].continuation = 1
       /\ seen[s].atContinuation # seen[s].atInit
       /\ revertFormValue[s] = seen[s].atContinuation

\* C10: tearing down an EditRef that is not the dispatcher's active one leaves
\* the active one in place; tearing down the active one leaves none.
C10_TeardownOfSuperseded ==
  lastOp.op = "ngOnDestroy" =>
    activeEditRef = IF lastOp.preActive = lastOp.ref THEN NoRef ELSE lastOp.preActive

C10_Witness ==
  /\ lastOp.op = "ngOnDestroy"
  /\ lastOp.ref = 1
  /\ lastOp.preActive = 2
  /\ activeEditRef = 2

\* The subscribers attached to blurred of EditRef s.
BlurredSubscribers(s) ==
  {k \in Subscribers : subscribed[k].stream = "blurred" /\ subscribed[k].ref = s}

\* C11: a close call pushes one null marker onto the dispatcher's editing stream
\* and changes nothing else: not finalValue, blurred or what their subscribers
\* were delivered, not the revert value, the form or the dispatcher's active
\* EditRef, and it is no teardown; finalValue is completed by ngOnDestroy alone.
C11_CloseIsOnlyARequest ==
  [][/\ lastOp'.op = "close" =>
          /\ editing' = Append(editing, Null)
          /\ UNCHANGED <<nRefs, activeEditRef, formValue, revertFormValue,
                         finalValueSubject, blurredSubject, received, onStable,
                         firing, calls>>
     /\ \A s \in Refs :
          (finalValueSubject'[s].isStopped /\ ~finalValueSubject[s].isStopped)
            => (lastOp'.op = "ngOnDestroy" /\ lastOp'.ref = s)]_vars

C11_Witness ==
  /\ lastOp.op = "close"
  /\ lastOp.preActive = lastOp.ref
  /\ activeEditRef = lastOp.ref
  /\ editing = <<Null>>
  /\ revertFormValue[lastOp.ref] # Undefined
  /\ calls[lastOp.ref].destroy = 0
  /\ \E k \in FinalValueSubscribers(lastOp.ref) : received[k] = <<>>

\* C12: a blur call delivers one notification without payload to every
\* subscriber of blurred and changes neither the revert value, the form, the
\* dispatcher's active EditRef nor finalValue; a subscriber has been delivered
\* as many notifications as blur calls were made since it attached, and blurred
\* is never completed.
C12_BlurNotifiesOnce ==
  /\ [](\A s \in Refs :
          /\ ~blurredSubject[s].isStopped
          /\ \A k \in BlurredSubscribers(s) :
               /\ Len(received[k]) = subscribed[k].blurs
               /\ \A i \in 1..Len(received[k]) :
                    received[k][i].kind = "next" /\ received[k][i].val = Undefined)
  /\ [][lastOp'.op = "blur" =>
          /\ \A k \in Subscribers :
               received'[k] = IF k \in BlurredSubscribers(lastOp'.ref)
                              THEN Append(received[k],
                                          [kind |-> "next", val |-> Undefined,
                                           active |-> activeEditRef])
                              ELSE received[k]
          /\ UNCHANGED <<activeEditRef, formValue, revertFormValue,
                         finalValueSubject, blurredSubject, editing>>]_vars

C12_Witness ==
  /\ lastOp.op = "blur"
  /\ \E k \in BlurredSubscribers(lastOp.ref) :
       /\ subscribed[k].blurs = 2
       /\ Len(received[k]) = 2

\* C13 as stated: once an EditRef has been torn down, a blur, close, reset or
\* updateRevertValue call on it changes neither the form nor the dispatcher's
\* active EditRef, pushes nothing onto the editing stream and delivers nothing
\* on finalValue.
C13_SafeAfterTeardown ==
  [][(/\ lastOp'.op \in {"blur", "close", "reset", "updateRevertValue"}
      /\ calls[lastOp'.ref].destroy > 0)
       => /\ UNCHANGED <<formValue, activeEditRef, editing>>
          /\ \A k \in FinalValueSubscribers(lastOp'.ref) : received'[k] = received[k]]_vars

\* C14: an updateRevertValue call leaves the revert value equal to the form's
\* value and the form as it was, so a call made when the revert value already
\* is the form's value changes nothing; and a reset() without argument restores
\* the value of the last such call, not the one init's continuation cached.
C14_CheckpointIsIdempotent ==
  /\ lastOp.op = "updateRevertValue" =>
       /\ revertFormValue[lastOp.ref] = lastOp.pre
       /\ formValue[lastOp.ref] = lastOp.pre
       /\ lastOp.preRevert = lastOp.pre => revertFormValue[lastOp.ref] = lastOp.preRevert
  /\ (BareReset /\ seen[lastOp.ref].atUpdate # None)
       => formValue[lastOp.ref] = seen[lastOp.ref].atUpdate

C14_Witness ==
  /\ BareReset
  /\ calls[lastOp.ref].continuation >= 1
  /\ seen[lastOp.ref].atUpdate # None
  /\ seen[lastOp.ref].replaced \notin {None, Undefined, seen[lastOp.ref].atUpdate}
  /\ formValue[lastOp.ref] = seen[lastOp.ref].atUpdate

\* C15: reset(v) resets the form to v when v is truthy and to the revert value
\* when v is absent or falsy (the form's own reset-to-nothing when that is
\* unset); init's continuation with a falsy previous value caches the form's
\* value and leaves the form alone.
C15_FalsyIsAbsent ==
  /\ lastOp.op = "reset" =>
       formValue[lastOp.ref] =
         IF lastOp.arg \in TruthyValues THEN lastOp.arg
         ELSE IF lastOp.preRevert = Undefined THEN Null
         ELSE lastOp.preRevert
  /\ (lastOp.op = "continuation" /\ lastOp.arg \notin TruthyValues) =>
       /\ revertFormValue[lastOp.ref] = lastOp.pre
       /\ formValue[lastOp.ref] = lastOp.pre

C15_Witness ==
  /\ lastOp.op = "reset"
  /\ lastOp.arg \in FalsyValues
  /\ lastOp.preRevert \in TruthyValues
  /\ lastOp.pre # lastOp.preRevert
  /\ formValue[lastOp.ref] = lastOp.preRevert

\* C16: a constructor call delivers nothing on and completes none of the streams
\* of the EditRefs constructed before, and leaves their revert values and forms
\* alone; the first teardown of a superseded EditRef still delivers its form's
\* value, then the completion, to the subscribers of its finalValue.
C16_SupersedingIsNotDestruction ==
  [][/\ lastOp'.op = "constructor" =>
          /\ UNCHANGED <<received, finalValueSubject, blurredSubject, revertFormValue>>
          /\ \A s \in 1..nRefs : formValue'[s] = formValue[s]
     /\ \A s \in Refs :
          (/\ lastOp'.op = "ngOnDestroy"
           /\ lastOp'.ref = s
           /\ activeEditRef # s
           /\ calls[s].destroy = 0)
            => \A k \in FinalValueSubscribers(s) :
                 /\ Len(received'[k]) = Len(received[k]) + 2
                 /\ received'[k][Len(received[k]) + 1].kind = "next"
                 /\ received'[k][Len(received[k]) + 1].val = formValue[s]
                 /\ received'[k][Len(received[k]) + 2].kind = "complete"]_vars

C16_Witness ==
  /\ lastOp.op = "ngOnDestroy"
  /\ lastOp.ref = 1
  /\ lastOp.preActive = 2
  /\ calls[1].destroy = 1
  /\ \E k \in FinalValueSubscribers(1) :
       /\ Len(Values(k)) = 1
       /\ Values(k)[1].val = lastOp.pre

\* C17: the constructor leaves the revert value unset, and it stays unset until
\* init's continuation has run or updateRevertValue was called, whatever the
\* form holds or is changed to.
C17_NoReadAtConstruction ==
  /\ lastOp.op = "constructor" => revertFormValue[lastOp.ref] = Undefined
  /\ \A s \in Refs :
       (calls[s].continuation = 0 /\ seen[s].atUpdate = None)
         => revertFormValue[s] = Undefined

C17_Witness ==
  /\ lastOp.op = "formEdit"
  /\ calls[lastOp.ref].init = 1
  /\ calls[lastOp.ref].continuation = 0
  /\ formValue[lastOp.ref] \in TruthyValues
  /\ revertFormValue[lastOp.ref] = Undefined

\* C18: the revert value of an EditRef changes only in a step of its
\* updateRevertValue or of its init's continuation.
C18_TwoWritersOfRevertValue ==
  [][\A s \in Refs :
       revertFormValue'[s] # revertFormValue[s]
         => (lastOp'.op \in {"updateRevertValue", "continuation"} /\ lastOp'.ref = s)]_vars

C18_Witness ==
  /\ lastOp.op = "reset"
  /\ lastOp.arg \in TruthyValues
  /\ revertFormValue[lastOp.ref] \in TruthyValues
  /\ revertFormValue[lastOp.ref] # lastOp.arg
  /\ formValue[lastOp.ref] = lastOp.arg
  /\ lastOp.pre # lastOp.arg

\* C19: close can be called on any constructed EditRef, active, superseded or
\* not yet initialised, and every call pushes one null marker onto the editing
\* stream and leaves the dispatcher's active EditRef as it is.
C19_CloseIsUnconditional ==
  /\ [](\A s \in 1..nRefs :
          (firing = <<>> /\ steps < MaxSteps /\ Len(editing) < MaxClose)
            => ENABLED close(s))
  /\ [][lastOp'.op = "close" =>
          /\ Len(editing') = Len(editing) + 1
          /\ editing'[Len(editing')] = Null
          /\ SubSeq(editing', 1, Len(editing)) = editing
          /\ activeEditRef' = activeEditRef]_vars

C19_Witness ==
  /\ lastOp.op = "close"
  /\ lastOp.preActive \notin {NoRef, lastOp.ref}
  /\ activeEditRef = lastOp.preActive
  /\ calls[lastOp.ref].continuation = 0
  /\ editing = <<Null>>

====
